---- MODULE Spec2Model ----
(***************************************************************************)
(* typed_tuple: position markers and their arithmetic, the generated       *)
(* ChainRight / TypedBounds implementations, and the decomposition methods *)
(* of the TypedTuple extension trait (split_exclusive, split_left,         *)
(* split_right, split_inclusive, pop).                                     *)
(* Also the position lookup (NthIndex, LastIndex), the borrowing methods   *)
(* of TypedTuple (get, get_mut, replace, take, swap) and TypedExtract.     *)
(*                                                                         *)
(* A tuple is a sequence of elements; an element is a record               *)
(* [ty |-> element type, val |-> value].  Field i of the Rust tuple        *)
(* (self.i, 0-based) is element i + 1 of the sequence.                     *)
(*                                                                         *)
(* Trait resolution is modelled by the set of implementations the          *)
(* generator emits: resolving a trait for given arguments yields the set   *)
(* of outputs of the matching implementations, which is empty when no      *)
(* implementation exists (the program does not compile).                   *)
(***************************************************************************)
EXTENDS Integers, Sequences, FiniteSets

VARIABLES tup, moved, op, idx, out

vars == <<tup, moved, op, idx, out>>

---------------------------------------------------------------------------
(* Sizes.                                                                  *)

\* typed_tuple_macros/src/lib.rs:18 (default feature set)
MAX_SIZE == 64

\* the argument of impl_typed_extract!(12): the tuple sizes TypedExtract is
\* generated for
EXTRACT_SIZE == 12

\* the argument of impl_typed_split!(12) and of impl_typed_bound!(12)
SPLIT_SIZE == 12

\* longest tuple whose contents are enumerated exhaustively
MaxLen == 3
\* number of distinct element types in enumerated tuples
NumTypes == 2
\* element values of enumerated tuples are 0..MaxVal
MaxVal == 1

TypeNames == <<"u8", "u16", "u32", "u64", "i8", "i16", "i32", "i64">>

Types == {TypeNames[i] : i \in 1..NumTypes}

Vals == 0..MaxVal

Elements == [ty : Types, val : Vals]

\* every tuple of length 0..MaxLen over Elements
SmallTuples == UNION {[1..n -> Elements] : n \in 0..MaxLen}

\* the tuple of length n whose field i holds the value first + i, element
\* types cycling through Types
Canon(n, first) ==
    [i \in 1..n |-> [ty |-> TypeNames[((i - 1) % NumTypes) + 1], val |-> first + i - 1]]

\* one tuple of every length 0..MAX_SIZE + 1: every supported length, and one
\* length past the largest supported
BigTuples == {Canon(n, 0) : n \in 0..(MAX_SIZE + 1)}

BigRightTuples == {Canon(n, 100) : n \in 0..(MAX_SIZE + 1)}

Tuples == SmallTuples \cup BigTuples

---------------------------------------------------------------------------
(* Tuple expressions of the generated code.                                *)

\* self.i
Field(self, i) == self[i + 1]

\* the Rust range a..b as the sequence of its values
Range(a, b) == [k \in 1..(b - a) |-> a + k - 1]

\* (#(self.#indices,)*)
TupleOf(self, indices) == [k \in 1..Len(indices) |-> Field(self, indices[k])]

---------------------------------------------------------------------------
(* Position markers and their arithmetic.                                  *)

\* generate_index_markers: TupleIndex0 .. TupleIndex{MAX_SIZE - 1}; a marker
\* is modelled by its Idx constant
generate_index_markers == {index : index \in 0..(MAX_SIZE - 1)}

\* variant of generate_index_add_impls: the bound check written with >
generate_index_add_impls_off_by_one ==
    {[left |-> lr[1], right |-> lr[2], output |-> lr[1] + lr[2]] :
        lr \in {x \in (0..(MAX_SIZE - 1)) \X (0..(MAX_SIZE - 1)) : ~(x[1] + x[2] > MAX_SIZE)}}

\* generate_index_add_impls: impl TupleIndexAdd<right> for left { Output = sum }
generate_index_add_impls ==
    {[left |-> lr[1], right |-> lr[2], output |-> lr[1] + lr[2]] :
        lr \in {x \in (0..(MAX_SIZE - 1)) \X (0..(MAX_SIZE - 1)) : ~(x[1] + x[2] >= MAX_SIZE)}}

\* variant of generate_index_sub_impls: right in 0..left
generate_index_sub_impls_exclusive ==
    {[left |-> lr[1], right |-> lr[2], output |-> lr[1] - lr[2]] :
        lr \in {x \in (0..(MAX_SIZE - 1)) \X (0..(MAX_SIZE - 1)) : x[2] \in 0..(x[1] - 1)}}

\* variant of generate_index_sub_impls: right in 1..=left
generate_index_sub_impls_from_one ==
    {[left |-> lr[1], right |-> lr[2], output |-> lr[1] - lr[2]] :
        lr \in {x \in (0..(MAX_SIZE - 1)) \X (0..(MAX_SIZE - 1)) : x[2] \in 1..x[1]}}

\* generate_index_sub_impls: impl TupleIndexSub<right> for left { Output = diff }
generate_index_sub_impls ==
    {[left |-> lr[1], right |-> lr[2], output |-> lr[1] - lr[2]] :
        lr \in {x \in (0..(MAX_SIZE - 1)) \X (0..(MAX_SIZE - 1)) : x[2] \in 0..x[1]}}

\* variant of generate_index_saturating_sub_impls: the operands exchanged
generate_index_saturating_sub_impls_swapped ==
    {[left |-> lr[1], right |-> lr[2],
      output |-> IF lr[2] >= lr[1] THEN lr[2] - lr[1] ELSE 0] :
        lr \in (0..(MAX_SIZE - 1)) \X (0..(MAX_SIZE - 1))}

\* generate_index_saturating_sub_impls:
\* impl TupleIndexSaturatingSub<right> for left { Output = diff }
generate_index_saturating_sub_impls ==
    {[left |-> lr[1], right |-> lr[2],
      output |-> IF lr[1] >= lr[2] THEN lr[1] - lr[2] ELSE 0] :
        lr \in (0..(MAX_SIZE - 1)) \X (0..(MAX_SIZE - 1))}

\* every value an Output of the arithmetic generators can take
Outputs == 0..(2 * (MAX_SIZE - 1))

\* <left as TupleIndexAdd<right>>::Output
TupleIndexAdd(left, right) ==
    {i.output : i \in {j \in [left : {left}, right : {right}, output : Outputs] :
                          j \in generate_index_add_impls}}

\* <left as TupleIndexSub<right>>::Output
TupleIndexSub(left, right) ==
    {i.output : i \in {j \in [left : {left}, right : {right}, output : Outputs] :
                          j \in generate_index_sub_impls}}

\* <left as TupleIndexSaturatingSub<right>>::Output
TupleIndexSaturatingSub(left, right) ==
    {i.output : i \in {j \in [left : {left}, right : {right}, output : Outputs] :
                          j \in generate_index_saturating_sub_impls}}

\* define_tuple_index_trait: the supertraits of TupleIndex, which every
\* marker that implements TupleIndex has to satisfy
\*   TupleIndexSub<Self, Output = TupleIndex0>
\*   + TupleIndexSub<TupleIndex0, Output = Self>
\*   + TupleIndexAdd<TupleIndex0, Output = Self>
\*   + TupleIndexSaturatingSub<TupleIndex{i}> for every i
TupleIndexBounds(marker) ==
    /\ TupleIndexSub(marker, marker) = {0}
    /\ TupleIndexSub(marker, 0) = {marker}
    /\ TupleIndexAdd(marker, 0) = {marker}
    /\ \A i \in 0..(MAX_SIZE - 1) : TupleIndexSaturatingSub(marker, i) # {}

---------------------------------------------------------------------------
(* ChainRight / ChainLeft.                                                 *)

\* variant of generate_chain_right_impls: for left_size in 1..=MAX_SIZE
generate_chain_right_impls_from_one ==
    {[left_size |-> lr[1], right_size |-> lr[2]] :
        lr \in {x \in (1..MAX_SIZE) \X (0..MAX_SIZE) : ~(x[1] + x[2] > MAX_SIZE)}}

\* variant of generate_chain_right_impls: the size check written with >=
generate_chain_right_impls_ge ==
    {[left_size |-> lr[1], right_size |-> lr[2]] :
        lr \in {x \in (0..MAX_SIZE) \X (0..MAX_SIZE) : ~(x[1] + x[2] >= MAX_SIZE)}}

\* generate_chain_right_impls: one impl of ChainRight<(R0, ..)> for (L0, ..)
\* per pair of sizes; the type parameters are generic, so an impl is
\* identified by its two sizes
generate_chain_right_impls ==
    {[left_size |-> lr[1], right_size |-> lr[2]] :
        lr \in {x \in (0..MAX_SIZE) \X (0..MAX_SIZE) : ~(x[1] + x[2] > MAX_SIZE)}}

\* variant of chain_right_body: the right fields first
chain_right_body_right_first(impl, self, right) ==
    TupleOf(right, Range(0, impl.right_size)) \o TupleOf(self, Range(0, impl.left_size))

\* fn chain_right of the impl for (left_size, right_size):
\* (#(self.#left_indices,)* #(right.#right_indices,)*)
chain_right_body(impl, self, right) ==
    TupleOf(self, Range(0, impl.left_size)) \o TupleOf(right, Range(0, impl.right_size))

\* the results of self.chain_right(right) under every matching impl
ChainRightOutput(self, right) ==
    {chain_right_body(i, self, right) :
        i \in {j \in {[left_size |-> Len(self), right_size |-> Len(right)]} :
                  j \in generate_chain_right_impls}}

\* self.chain_right(right), where the impl exists
chain_right(self, right) == CHOOSE o \in ChainRightOutput(self, right) : TRUE

\* the results of self.chain_left(left): ChainLeft<Left> holds for Right
\* exactly when Left: ChainRight<Right>, with the same Output
ChainLeftOutput(self, left) == ChainRightOutput(left, self)

\* self.chain_left(left)
chain_left(self, left) == CHOOSE o \in ChainLeftOutput(self, left) : TRUE

---------------------------------------------------------------------------
(* TypedIndex / TypedBounds implementations.                               *)

\* variant of generate_typed_tuple_impls: index in 0..size - 1
generate_typed_tuple_impls_short ==
    {[size |-> si[1], index |-> si[2]] :
        si \in {x \in (1..MAX_SIZE) \X (0..(MAX_SIZE - 1)) : x[2] \in 0..(x[1] - 2)}}

\* variant of generate_typed_tuple_impls: index in 1..size
generate_typed_tuple_impls_from_one ==
    {[size |-> si[1], index |-> si[2]] :
        si \in {x \in (1..MAX_SIZE) \X (0..(MAX_SIZE - 1)) : x[2] \in 1..(x[1] - 1)}}

\* generate_typed_tuple_impls: one impl of TypedIndex and of TypedBounds per
\* tuple size and index
generate_typed_tuple_impls ==
    {[size |-> si[1], index |-> si[2]] :
        si \in {x \in (1..MAX_SIZE) \X (0..(MAX_SIZE - 1)) : x[2] \in 0..(x[1] - 1)}}

\* variant of split_exclusive_at_body: the left part taken through index
split_exclusive_at_body_take_through(impl, self) ==
    [left    |-> TupleOf(self, Range(0, impl.index + 1)),
     element |-> Field(self, impl.index),
     right   |-> TupleOf(self, Range(impl.index + 1, impl.size))]

\* variant of split_exclusive_at_body: the right part taken from index
split_exclusive_at_body_skip_index(impl, self) ==
    [left    |-> TupleOf(self, Range(0, impl.index)),
     element |-> Field(self, impl.index),
     right   |-> TupleOf(self, Range(impl.index, impl.size))]

\* fn split_exclusive_at of the impl for (size, index)
split_exclusive_at_body(impl, self) ==
    [left    |-> TupleOf(self, Range(0, impl.index)),
     element |-> Field(self, impl.index),
     right   |-> TupleOf(self, Range(impl.index + 1, impl.size))]

\* the impls of TypedBounds<TupleIndex{index}, _> for the type of self
TypedBoundsImpls(self, index) ==
    {j \in {[size |-> Len(self), index |-> index]} : j \in generate_typed_tuple_impls}

\* TypedBounds::<Idx, T>::split_exclusive_at(self)
split_exclusive_at(self, index) ==
    split_exclusive_at_body(CHOOSE i \in TypedBoundsImpls(self, index) : TRUE, self)

---------------------------------------------------------------------------
(* TypedTuple methods.                                                     *)

\* TypedTuple::split_exclusive
split_exclusive(self, index) == split_exclusive_at(self, index)

\* variant of pop: the two parts chained the other way round
pop_right_left(self, index) ==
    LET s == split_exclusive_at(self, index)
    IN  [element |-> s.element, rest |-> chain_right(s.right, s.left)]

\* TypedTuple::pop
pop(self, index) ==
    LET s == split_exclusive(self, index)
    IN  [element |-> s.element, rest |-> chain_right(s.left, s.right)]

\* TypedTuple::split_left
split_left(self, index) ==
    LET s == split_exclusive(self, index)
    IN  [left |-> chain_right(s.left, <<s.element>>), right |-> s.right]

\* TypedTuple::split_right
split_right(self, index) ==
    LET s == split_exclusive(self, index)
    IN  [left |-> s.left, right |-> chain_left(s.right, <<s.element>>)]

\* T::clone for the element types of the model (plain values)
clone(element) == element

\* variant of split_inclusive: the element moved into the left part only
split_inclusive_left_only(self, index) ==
    LET s == split_exclusive_at(self, index)
    IN  [left |-> chain_right(s.left, <<s.element>>), right |-> s.right]

\* TypedTuple::split_inclusive
split_inclusive(self, index) ==
    LET s == split_exclusive(self, index)
    IN  [left  |-> chain_right(s.left, <<clone(s.element)>>),
         right |-> chain_left(s.right, <<s.element>>)]

\* the where-clause Self: TypedBounds<Idx, T> of the decomposition methods:
\* the impl exists, and so do the ChainRight impls that its associated types
\* are bound by and the method bodies call:
\*   SplitLeftExclusive: ChainRight<(T,)> + ChainRight<SplitRightExclusive>
\*                       + ChainRight<SplitRightInclusive>,
\*   (T,): ChainRight<SplitRightExclusive>,
\*   SplitLeftInclusive: ChainRight<SplitRightExclusive>
HasTypedBounds(self, index) ==
    /\ TypedBoundsImpls(self, index) # {}
    /\ LET s == split_exclusive_at(self, index)
       IN  /\ ChainRightOutput(s.left, <<s.element>>) # {}
           /\ ChainRightOutput(s.left, s.right) # {}
           /\ ChainRightOutput(<<s.element>>, s.right) # {}
           /\ ChainRightOutput(s.left, chain_right(<<s.element>>, s.right)) # {}
           /\ ChainRightOutput(chain_right(s.left, <<s.element>>), s.right) # {}

---------------------------------------------------------------------------
(* TypedExtract: the range start .. end - 1 of a tuple.                    *)

\* a generic parameter left to inference is settled by the only candidate,
\* and by nothing else
Infer(candidates) == IF Cardinality(candidates) = 1 THEN candidates ELSE {}

\* variant of impl_typed_extract: j in i..n
impl_typed_extract_exclusive(n) ==
    {[size |-> n, start |-> ij[1], end |-> ij[2]] :
        ij \in {x \in (0..(n - 1)) \X (0..n) : x[2] \in x[1]..(n - 1)}}

\* impl_typed_extract(n, ..): for i in 0..n, for j in i..=n,
\* impl TypedExtract<i, j, (Ti, .., T{j-1})> for the tuples of n elements
impl_typed_extract(n) ==
    {[size |-> n, start |-> ij[1], end |-> ij[2]] :
        ij \in {x \in (0..(n - 1)) \X (0..n) : x[2] \in x[1]..n}}

\* impl_typed_extract!(12): the impls of every tuple size up to 12
typed_extract_impls == UNION {impl_typed_extract(n) : n \in 1..EXTRACT_SIZE}

\* fn extract of the impl for (size, start, end): (self.start, .., self.{end-1})
extract_body(impl, self) == TupleOf(self, Range(impl.start, impl.end))

\* TypedExtract::<start, end, _>::extract(self), the set of results of the
\* impls for the type of self
extract(self, start, end) ==
    {extract_body(j, self) :
        j \in {k \in {[size |-> Len(self), start |-> start, end |-> end]} :
                  k \in typed_extract_impls}}

\* an element type left open in a tuple pattern: (u16, _, _)
Open == "_"

\* the return type (Ti, .., T{j-1}) of the impl for (size, start, end)
\* unifies with the tuple pattern
return_ty_own(impl, self, pattern) ==
    /\ Len(pattern) = impl.end - impl.start
    /\ \A k \in 1..Len(pattern) :
           pattern[k] \in {Open, Field(self, impl.start + k - 1).ty}

\* the impls of TypedExtract<_, _, pattern> for the type of self
TypedExtractImplsOf(self, pattern) ==
    {k \in [size : {Len(self)}, start : 0..EXTRACT_SIZE, end : 0..EXTRACT_SIZE] :
        /\ k \in typed_extract_impls
        /\ return_ty_own(k, self, pattern)}

\* let extracted: pattern = self.extract(), with both indices inferred
extract_of(self, pattern) ==
    {extract_body(j, self) : j \in Infer(TypedExtractImplsOf(self, pattern))}

---------------------------------------------------------------------------
(* TypedSplit / TypedBound: the two segments around a centre bound index.  *)

\* variant of impl_typed_split: i in 0..n
impl_typed_split_short(n) == {[size |-> n, index |-> i] : i \in 0..(n - 1)}

\* impl_typed_split(n): for i in 0..n + 1,
\* impl TypedSplit<i, (T0, .., T{i-1}), (Ti, ..)> for the tuples of n elements
impl_typed_split(n) == {[size |-> n, index |-> i] : i \in 0..n}

\* impl_typed_bound(n): for i in 0..n + 1,
\* impl TypedBound<i, (T0, .., T{i-1}), (Ti, ..)> for the tuples of n elements
impl_typed_bound(n) == {[size |-> n, index |-> i] : i \in 0..n}

\* impl_typed_split!(12): the impls of every tuple size up to 12
typed_split_impls == UNION {impl_typed_split(n) : n \in 1..SPLIT_SIZE}

\* impl_typed_bound!(12): the impls of every tuple size up to 12
typed_bound_impls == UNION {impl_typed_bound(n) : n \in 1..SPLIT_SIZE}

\* fn split of the impl for (size, index):
\* ((self.0, .., self.{index-1}), (self.index, .., self.{size-1}))
split_body(impl, self) ==
    [left  |-> TupleOf(self, Range(0, impl.index)),
     right |-> TupleOf(self, Range(impl.index, impl.size))]

\* TypedSplit::<index, _, _>::split(self), the set of results of the impls
\* for the type of self
split(self, index) ==
    {split_body(j, self) :
        j \in {k \in {[size |-> Len(self), index |-> index]} : k \in typed_split_impls}}

\* TypedBound::<index, _, _>::split(self)
bound_split(self, index) ==
    {split_body(j, self) :
        j \in {k \in {[size |-> Len(self), index |-> index]} : k \in typed_bound_impls}}

\* a segment type written _ in a pattern: no number of elements is stated
OpenLen == -1

\* the segment types L and R of the impl for (size, index) unify with the
\* pattern: a number of elements, or OpenLen, for each segment
segments(impl, pattern) ==
    /\ pattern.left \in {OpenLen, impl.index}
    /\ pattern.right \in {OpenLen, impl.size - impl.index}

\* let (l, r): pattern = self.split(), with the index inferred
split_of(self, pattern) ==
    {split_body(j, self) :
        j \in Infer({k \in [size : {Len(self)}, index : 0..SPLIT_SIZE] :
                        k \in typed_split_impls /\ segments(k, pattern)})}

---------------------------------------------------------------------------
(* The tuple machine: a tuple is constructed, then operated on.            *)

\* the state is the result of the method name applied to tup at idx
Did(name) == op = name

Init ==
    /\ tup \in Tuples
    /\ moved = FALSE
    /\ op = "new"
    /\ idx = 0
    /\ out = <<>>

\* a consuming method call self.m::<TupleIndex{index}>()
Consume(name, index, result) ==
    /\ ~moved
    /\ index \in generate_index_markers
    /\ HasTypedBounds(tup, index)
    /\ moved' = TRUE
    /\ op' = name
    /\ idx' = index
    /\ out' = result
    /\ UNCHANGED tup

SplitExclusive == \E index \in 0..(MAX_SIZE - 1) :
    Consume("split_exclusive", index, split_exclusive(tup, index))

SplitLeft == \E index \in 0..(MAX_SIZE - 1) :
    Consume("split_left", index, split_left(tup, index))

SplitRight == \E index \in 0..(MAX_SIZE - 1) :
    Consume("split_right", index, split_right(tup, index))

SplitInclusive == \E index \in 0..(MAX_SIZE - 1) :
    Consume("split_inclusive", index, split_inclusive(tup, index))

Pop == \E index \in 0..(MAX_SIZE - 1) :
    Consume("pop", index, pop(tup, index))

\* the right operands tried with a given left operand
ChainOperands(self) ==
    LET small == UNION {[1..n -> Elements] : n \in 0..(MaxLen - Len(self))}
    IN  IF self = Canon(Len(self), 0) THEN BigRightTuples \cup small ELSE small

\* self.chain_right(right), resolved or not
ChainRight == \E right \in ChainOperands(tup) :
    /\ ~moved
    /\ moved' = TRUE
    /\ op' = "chain_right"
    /\ idx' = 0
    /\ out' = [right |-> right, output |-> ChainRightOutput(tup, right)]
    /\ UNCHANGED tup

\* the ranges tried on a tuple
ExtractOperands(self) ==
    LET n == IF Len(self) < EXTRACT_SIZE THEN Len(self) + 1 ELSE EXTRACT_SIZE + 1
    IN  {x \in (0..n) \X (0..n) : x[1] <= x[2]}

\* TypedExtract::<start, end, _>::extract(self), resolved or not
Extract == \E range \in ExtractOperands(tup) :
    /\ ~moved
    /\ moved' = TRUE
    /\ op' = "extract"
    /\ idx' = range[1]
    /\ out' = [end |-> range[2], output |-> extract(tup, range[1], range[2])]
    /\ UNCHANGED tup

\* the tuple patterns tried on a tuple: every pattern of up to MaxLen
\* element types, on the tuples whose values number their positions
PatternOperands(self) ==
    IF \/ self = Canon(Len(self), 0)
       \/ \A i \in 1..Len(self) : self[i].val = (i - 1) % (MaxVal + 1)
    THEN UNION {[1..k -> Types \cup {Open}] : k \in 0..MaxLen}
    ELSE {}

\* let extracted: pattern = self.extract(), resolved or not
ExtractOf == ~moved /\ \E pattern \in PatternOperands(tup) :
    /\ moved' = TRUE
    /\ op' = "extract_of"
    /\ idx' = 0
    /\ out' = [pattern |-> pattern, output |-> extract_of(tup, pattern)]
    /\ UNCHANGED tup

\* the centre bound indices tried on a tuple
SplitOperands(self) ==
    0..(IF Len(self) < SPLIT_SIZE THEN Len(self) + 1 ELSE SPLIT_SIZE + 1)

\* TypedSplit::<index, _, _>::split(self) and the same of TypedBound,
\* resolved or not
Split == ~moved /\ \E index \in SplitOperands(tup) :
    /\ moved' = TRUE
    /\ op' = "split"
    /\ idx' = index
    /\ out' = [output |-> split(tup, index), bound |-> bound_split(tup, index)]
    /\ UNCHANGED tup

\* the segment patterns tried on a tuple, on the tuples whose values number
\* their positions
SegmentOperands(self) ==
    IF \/ self = Canon(Len(self), 0)
       \/ \A i \in 1..Len(self) : self[i].val = (i - 1) % (MaxVal + 1)
    THEN [left : SplitOperands(self) \cup {OpenLen}, right : SplitOperands(self) \cup {OpenLen}]
    ELSE {}

\* let (l, r): pattern = self.split(), resolved or not
SplitOf == ~moved /\ \E pattern \in SegmentOperands(tup) :
    /\ moved' = TRUE
    /\ op' = "split_of"
    /\ idx' = 0
    /\ out' = [pattern |-> pattern, output |-> split_of(tup, pattern)]
    /\ UNCHANGED tup

Next ==
    \/ SplitExclusive
    \/ SplitLeft
    \/ SplitRight
    \/ SplitInclusive
    \/ Pop
    \/ ChainRight
    \/ Extract
    \/ ExtractOf
    \/ Split
    \/ SplitOf

Spec == Init /\ [][Next]_vars

---------------------------------------------------------------------------
(* The position machine: the arithmetic traits resolved for every pair of  *)
(* markers.                                                                *)

\* a pair of markers is chosen; out holds the operands
InitIndex ==
    /\ tup = <<>>
    /\ moved = FALSE
    /\ op = "new"
    /\ idx = 0
    /\ out \in [left : generate_index_markers, right : generate_index_markers]

\* <left as Trait<right>>::Output is resolved for the chosen pair
Resolve(name, output) ==
    /\ op = "new"
    /\ op' = name
    /\ out' = [left |-> out.left, right |-> out.right, output |-> output]
    /\ UNCHANGED <<tup, moved, idx>>

Add == Resolve("add", TupleIndexAdd(out.left, out.right))

Sub == Resolve("sub", TupleIndexSub(out.left, out.right))

SaturatingSub == Resolve("saturating_sub", TupleIndexSaturatingSub(out.left, out.right))

NextIndex ==
    \/ Add
    \/ Sub
    \/ SaturatingSub

SpecIndex == InitIndex /\ [][NextIndex]_vars

---------------------------------------------------------------------------
(* Position lookup: NthIndex and LastIndex.                                *)

\* variant of generate_last_index_impls: Last = TupleIndex{size}
generate_last_index_impls_size ==
    {[size |-> size, last |-> size] : size \in 1..MAX_SIZE}

\* variant of generate_last_index_impls: Last = TupleIndex{size - 2}
generate_last_index_impls_before ==
    {[size |-> size, last |-> size - 2] : size \in 2..MAX_SIZE}

\* generate_last_index_impls: impl LastIndex for (T0, ..) { type Last = .. }
generate_last_index_impls ==
    {[size |-> size, last |-> size - 1] : size \in 1..MAX_SIZE}

\* <Self as LastIndex>::Last, the set of markers the impls for Self give
LastIndex(self) ==
    {i.last : i \in {j \in [size : {Len(self)}, last : Outputs] :
                        j \in generate_last_index_impls}}

\* variant of generate_nth_index_impls: NthType = T0
generate_nth_index_impls_first ==
    {[size |-> si[1], index |-> si[2], nth_type |-> 0] :
        si \in {x \in (1..MAX_SIZE) \X (0..(MAX_SIZE - 1)) : x[2] \in 0..(x[1] - 1)}}

\* generate_nth_index_impls: impl NthIndex<TupleIndex{index}> for (T0, ..)
\* { type NthType = T{index} }; nth_type is the number of the type parameter
generate_nth_index_impls ==
    {[size |-> si[1], index |-> si[2], nth_type |-> si[2]] :
        si \in {x \in (1..MAX_SIZE) \X (0..(MAX_SIZE - 1)) : x[2] \in 0..(x[1] - 1)}}

\* <Self as NthIndex<TupleIndex{index}>>::NthType, the set of element types
\* the impls for Self and the marker give
NthIndex(self, index) ==
    {Field(self, i.nth_type).ty :
        i \in {j \in [size : {Len(self)}, index : {index}, nth_type : 0..(MAX_SIZE - 1)] :
                  j \in generate_nth_index_impls}}

---------------------------------------------------------------------------
(* Element access: TypedIndex and the in-place TypedTuple methods.  A      *)
(* reference to a field is the number of the field.                        *)

\* const Idx of the marker TupleIndex{marker}
TupleIndexIdx(marker) == marker

\* variant of target_type: T0
target_type_first(impl, self) == Field(self, 0).ty

\* target_type of the impl for (size, index): T{index}
target_type(impl, self) == Field(self, impl.index).ty

\* the impls of TypedIndex<TupleIndex{index}, _> for the type of self
TypedIndexImpls(self, index) ==
    {j \in {[size |-> Len(self), index |-> index]} : j \in generate_typed_tuple_impls}

\* the impls of TypedIndex<_, T> for the type of self
TypedIndexImplsOf(self, T) ==
    {j \in [size : {Len(self)}, index : 0..(MAX_SIZE - 1)] :
        /\ j \in generate_typed_tuple_impls
        /\ target_type(j, self) = T}

\* fn get_at of the impl: &self.{index}
get_at_body(impl) == impl.index

\* fn get_mut_at of the impl: &mut self.{index}
get_mut_at_body(impl) == impl.index

\* self.get::<TupleIndex{index}, _>(): the references it can resolve to
get(self, index) == {get_at_body(j) : j \in TypedIndexImpls(self, index)}

\* self.get_mut::<TupleIndex{index}, _>()
get_mut(self, index) == {get_mut_at_body(j) : j \in TypedIndexImpls(self, index)}

\* self.get::<_, T>() with the marker inferred
get_of(self, T) == {get_at_body(j) : j \in Infer(TypedIndexImplsOf(self, T))}

\* self.get_mut::<_, T>() with the marker inferred
get_mut_of(self, T) == {get_mut_at_body(j) : j \in Infer(TypedIndexImplsOf(self, T))}

\* the only reference in a resolved set
Ref(refs) == CHOOSE r \in refs : TRUE

\* variant of Default: a value of the first element type
Default_first(T) == [ty |-> TypeNames[1], val |-> 0]

\* T::default() of the element types of the model (integers)
Default(T) == [ty |-> T, val |-> 0]

\* *dest = src through a reference into self
Write(self, dest, src) == [self EXCEPT ![dest + 1] = src]

\* fn extract of the impl for &'a Self: (&self.start, .., &self.{end-1})
extract_ref_body(impl) == Range(impl.start, impl.end)

\* variant of extract_mut_body: the references counted from field 0
extract_mut_body_from_zero(impl) == Range(0, impl.end - impl.start)

\* fn extract of the impl for &'a mut Self: (&mut self.start, .., &mut self.{end-1})
extract_mut_body(impl) == Range(impl.start, impl.end)

\* TypedExtract::<start, end, _>::extract(&self): the tuples of references
\* it can resolve to
extract_ref(self, start, end) ==
    {extract_ref_body(j) :
        j \in {k \in {[size |-> Len(self), start |-> start, end |-> end]} :
                  k \in typed_extract_impls}}

\* TypedExtract::<start, end, _>::extract(&mut self)
extract_mut(self, start, end) ==
    {extract_mut_body(j) :
        j \in {k \in {[size |-> Len(self), start |-> start, end |-> end]} :
                  k \in typed_extract_impls}}

\* fn split of the impl for &'a Self:
\* ((&self.0, .., &self.{index-1}), (&self.index, .., &self.{size-1}))
split_ref_body(impl) ==
    [left |-> Range(0, impl.index), right |-> Range(impl.index, impl.size)]

\* fn split of the impl for &'a mut Self
split_mut_body(impl) ==
    [left |-> Range(0, impl.index), right |-> Range(impl.index, impl.size)]

\* TypedSplit::<index, _, _>::split(&self)
split_ref(self, index) ==
    {split_ref_body(j) :
        j \in {k \in {[size |-> Len(self), index |-> index]} : k \in typed_split_impls}}

\* TypedSplit::<index, _, _>::split(&mut self)
split_mut(self, index) ==
    {split_mut_body(j) :
        j \in {k \in {[size |-> Len(self), index |-> index]} : k \in typed_split_impls}}

\* (*refs.0, .., *refs.{n-1}) for a tuple of references into self
Deref(self, refs) == TupleOf(self, refs)

\* core::mem::replace(dest, src)
mem_replace(self, dest, src) ==
    [self |-> Write(self, dest, src), result |-> Field(self, dest)]

\* core::mem::take(dest)
mem_take(self, dest) == mem_replace(self, dest, Default(Field(self, dest).ty))

\* core::mem::swap(x, y)
mem_swap(self, x, y) == Write(Write(self, x, Field(self, y)), y, Field(self, x))

\* variant of replace: the new value is returned
replace_returns_new(self, refs, value) ==
    [self |-> mem_replace(self, Ref(refs), value).self, result |-> value]

\* replace: core::mem::replace(self.get_mut::<Idx>(), value)
replace(self, refs, value) == mem_replace(self, Ref(refs), value)

\* variant of take: the element is read, not taken
take_keeps(self, refs) ==
    [self |-> self, result |-> Field(self, Ref(refs))]

\* take: core::mem::take(self.get_mut())
take(self, refs) == mem_take(self, Ref(refs))

\* variant of swap: the second field is taken from the first, not exchanged
swap_copy(self, a, b) ==
    IF TupleIndexIdx(a) # TupleIndexIdx(b)
    THEN LET field1 == Ref(get_mut(self, a))
             field2 == Ref(get_mut(self, b))
         IN  [self |-> Write(self, field2, Field(self, field1)),
              refs |-> <<field1, field2>>]
    ELSE [self |-> self, refs |-> <<>>]

\* variant of swap: exchanges only when Idx::Idx < Other::Idx
swap_ordered(self, a, b) ==
    IF TupleIndexIdx(a) < TupleIndexIdx(b)
    THEN LET field1 == Ref(get_mut(self, a))
             field2 == Ref(get_mut(self, b))
         IN  [self |-> mem_swap(self, field1, field2), refs |-> <<field1, field2>>]
    ELSE [self |-> self, refs |-> <<>>]

\* variant of swap: no comparison of the markers
swap_unguarded(self, a, b) ==
    LET field1 == Ref(get_mut(self, a))
        field2 == Ref(get_mut(self, b))
    IN  [self |-> mem_swap(self, field1, field2), refs |-> <<field1, field2>>]

\* swap: if Idx::Idx != Other::Idx, two mutable references are made from
\* one pointer to self and core::mem::swap exchanges what they refer to;
\* refs are the references made
swap(self, a, b) ==
    IF TupleIndexIdx(a) # TupleIndexIdx(b)
    THEN LET field1 == Ref(get_mut(self, a))
             field2 == Ref(get_mut(self, b))
         IN  [self |-> mem_swap(self, field1, field2), refs |-> <<field1, field2>>]
    ELSE [self |-> self, refs |-> <<>>]

\* the closures passed to apply and map_mut: |el| () and |el| *el += 1
MutClosures == {"keep", "incr"}

\* the closures passed to map: |x| *x and |x| x + 1
RefClosures == {"copy", "succ"}

\* f(el) for f: FnOnce(&mut T) -> R; el is what the reference is left to
\* refer to, values counted within Vals
call_mut(f, el) ==
    IF f = "incr"
    THEN [el     |-> [el EXCEPT !.val = (el.val + 1) % (MaxVal + 1)],
          result |-> (el.val + 1) % (MaxVal + 1)]
    ELSE [el |-> el, result |-> el.val]

\* f(el) for f: FnOnce(&T) -> R
call_ref(f, el) == IF f = "succ" THEN el.val + 1 ELSE el.val

\* apply: f(self.get_mut())
apply(self, refs, f) ==
    Write(self, Ref(refs), call_mut(f, Field(self, Ref(refs))).el)

\* map: f(self.get())
map(self, refs, f) == call_ref(f, Field(self, Ref(refs)))

\* map_mut: f(self.get_mut())
map_mut(self, refs, f) ==
    [self   |-> Write(self, Ref(refs), call_mut(f, Field(self, Ref(refs))).el),
     result |-> call_mut(f, Field(self, Ref(refs))).result]

\* where Self: TypedIndex<Idx, T> + TypedIndex<Other, T> of swap
SwapBounds(self, a, b) ==
    /\ TypedIndexImpls(self, a) # {}
    /\ TypedIndexImpls(self, b) # {}
    /\ \E i \in TypedIndexImpls(self, a) : \E j \in TypedIndexImpls(self, b) :
           target_type(i, self) = target_type(j, self)

---------------------------------------------------------------------------
(* Bound composition: TypedNth, TypedUntil, NthIndexedUntil, NthIndexedAs. *)

\* variant of until_bounds: for i in 2..MAX_SIZE
until_bounds_from_two ==
    [Idx \in generate_index_markers |->
        [i \in 1..(MAX_SIZE - 1) |->
            IF i = 1 THEN {Idx} ELSE TupleIndexSaturatingSub(Idx, i)]]

\* for i in 1..MAX_SIZE: <Idx as TupleIndexSaturatingSub<TupleIndex{i}>>::Output,
\* the markers of the generated bounds of TypedUntil, NthIndexedUntil and
\* NthIndexedAs
until_bounds ==
    [Idx \in generate_index_markers |->
        [i \in 1..(MAX_SIZE - 1) |-> TupleIndexSaturatingSub(Idx, i)]]

\* the markers the bounds name: Idx and every Output above
UntilPositions(Idx) ==
    {Idx} \cup UNION {until_bounds[Idx][i] : i \in 1..(MAX_SIZE - 1)}

\* every Output of the bounds resolves
UntilResolves(Idx) == \A i \in 1..(MAX_SIZE - 1) : until_bounds[Idx][i] # {}

\* TT: TypedNth<Idx>, that is
\* NthIndex<Idx> + TypedIndex<Idx, <TT as NthIndex<Idx>>::NthType>
TypedNth(self, Idx) ==
    /\ NthIndex(self, Idx) # {}
    /\ \E j \in TypedIndexImpls(self, Idx) : target_type(j, self) \in NthIndex(self, Idx)

\* TT: NthIndexedUntil<Idx>: NthIndex for Idx and for every Output
NthIndexedUntil(self, Idx) ==
    /\ NthIndex(self, Idx) # {}
    /\ UntilResolves(Idx)
    /\ \A o \in UntilPositions(Idx) : NthIndex(self, o) # {}

\* TT: TypedUntil<Idx>: NthIndex<Idx>, TypedNth for Idx and for every
\* Output, TypedIndex<Idx, NthType>
TypedUntil(self, Idx) ==
    /\ NthIndex(self, Idx) # {}
    /\ UntilResolves(Idx)
    /\ \A o \in UntilPositions(Idx) : TypedNth(self, o)

\* variant of NthIndexedAs: the types compared at Idx only
NthIndexedAs_at_index(self, Idx, Other) ==
    /\ NthIndexedUntil(Other, Idx)
    /\ NthIndexedUntil(self, Idx)
    /\ NthIndex(self, Idx) = NthIndex(Other, Idx)

\* TT: NthIndexedAs<Idx, Other>: Other: NthIndexedUntil<Idx>,
\* TT: NthIndexedUntil<Idx>, and NthIndex of TT with the NthType of Other
\* for Idx and for every Output
NthIndexedAs(self, Idx, Other) ==
    /\ NthIndexedUntil(Other, Idx)
    /\ NthIndexedUntil(self, Idx)
    /\ \A o \in UntilPositions(Idx) : NthIndex(self, o) = NthIndex(Other, o)

---------------------------------------------------------------------------
(* The access machine: a tuple is constructed, then borrowed: positions    *)
(* are looked up, elements are read and changed in place.                  *)

\* the markers tried on a tuple
IndexOperands(self) ==
    IF self = Canon(Len(self), 0)
    THEN generate_index_markers
    ELSE {i \in generate_index_markers : i <= Len(self)}

\* the values tried for the field of a marker
ValueOperands(self, index) ==
    IF index < Len(self)
    THEN {[ty |-> Field(self, index).ty, val |-> v] : v \in Vals}
    ELSE {Default(TypeNames[1])}

\* tup can be borrowed: tuples shorter than MaxLen are borrowed again and
\* again, the others once
Borrowable ==
    /\ ~moved
    /\ op = "new" \/ Len(tup) < MaxLen

\* the borrow name of tup at index leaves self in tup and gives result
Borrow(name, index, self, result) ==
    /\ tup' = self
    /\ op' = name
    /\ idx' = index
    /\ out' = result
    /\ UNCHANGED moved

\* <Self as NthIndex<TupleIndex{index}>>::NthType, resolved or not
NthType == Borrowable /\ \E index \in IndexOperands(tup) :
    Borrow("nth_type", index, tup, [output |-> NthIndex(tup, index)])

\* <Self as LastIndex>::Last, resolved or not
Last == Borrowable /\ Borrow("last", 0, tup, [output |-> LastIndex(tup)])

\* *self.get::<TupleIndex{index}, _>(), resolved or not
Get == Borrowable /\ \E index \in IndexOperands(tup) :
    Borrow("get", index, tup,
           [refs |-> get(tup, index),
            output |-> {Field(tup, r) : r \in get(tup, index)}])

\* *self.get_mut::<TupleIndex{index}, _>() = value, resolved or not
GetMut == Borrowable /\ \E index \in IndexOperands(tup) : \E value \in ValueOperands(tup, index) :
    LET refs == get_mut(tup, index)
    IN  Borrow("get_mut", index,
               IF refs = {} THEN tup ELSE Write(tup, Ref(refs), value),
               [old |-> tup, value |-> value, refs |-> refs])

\* self.replace::<TupleIndex{index}>(value)
Replace == Borrowable /\ \E index \in IndexOperands(tup) : \E value \in ValueOperands(tup, index) :
    LET refs == get_mut(tup, index)
    IN  /\ refs # {}
        /\ Borrow("replace", index, replace(tup, refs, value).self,
                  [old |-> tup, value |-> value,
                   result |-> replace(tup, refs, value).result])

\* self.take::<TupleIndex{index}>()
Take == Borrowable /\ \E index \in IndexOperands(tup) :
    LET refs == get_mut(tup, index)
    IN  /\ refs # {}
        /\ Borrow("take", index, take(tup, refs).self,
                  [old |-> tup, result |-> take(tup, refs).result])

\* self.swap::<TupleIndex{a}, TupleIndex{b}>()
Swap == Borrowable /\ \E a \in IndexOperands(tup) : \E b \in IndexOperands(tup) :
    /\ SwapBounds(tup, a, b)
    /\ Borrow("swap", a, swap(tup, a, b).self,
              [old |-> tup, other |-> b, refs |-> swap(tup, a, b).refs])

\* *self.get() with the element type T expected, resolved or not
GetOf == Borrowable /\ \E T \in Types :
    Borrow("get_of", 0, tup,
           [ty |-> T, refs |-> get_of(tup, T),
            output |-> {Field(tup, r) : r \in get_of(tup, T)}])

\* self.replace(value) with a value of type T, resolved or not
ReplaceOf == Borrowable /\ \E value \in Elements :
    LET refs == get_mut_of(tup, value.ty)
    IN  Borrow("replace_of", 0,
               IF refs = {} THEN tup ELSE replace(tup, refs, value).self,
               [old |-> tup, ty |-> value.ty, value |-> value, refs |-> refs,
                result |-> IF refs = {} THEN {} ELSE {replace(tup, refs, value).result}])

\* self.apply::<TupleIndex{index}, _>(f)
Apply == Borrowable /\ \E index \in IndexOperands(tup) : \E f \in MutClosures :
    LET refs == get_mut(tup, index)
    IN  /\ refs # {}
        /\ Borrow("apply", index, apply(tup, refs, f), [old |-> tup, f |-> f])

\* self.map::<TupleIndex{index}, _, _>(f)
Map == Borrowable /\ \E index \in IndexOperands(tup) : \E f \in RefClosures :
    LET refs == get(tup, index)
    IN  /\ refs # {}
        /\ Borrow("map", index, tup,
                  [old |-> tup, f |-> f, result |-> map(tup, refs, f)])

\* self.map_mut::<TupleIndex{index}, _, _>(f)
MapMut == Borrowable /\ \E index \in IndexOperands(tup) : \E f \in MutClosures :
    LET refs == get_mut(tup, index)
    IN  /\ refs # {}
        /\ Borrow("map_mut", index, map_mut(tup, refs, f).self,
                  [old |-> tup, f |-> f, result |-> map_mut(tup, refs, f).result])

\* the tuples borrowed by the reference forms of extract and split: those
\* whose values number their positions
BorrowOperands(self) ==
    \/ self = Canon(Len(self), 0)
    \/ \A i \in 1..Len(self) : self[i].val = (i - 1) % (MaxVal + 1)

\* the fields of a tuple of references that are written through
Written(refs) == 0..(Len(refs) - 1)

\* TypedExtract::<start, end, _>::extract(&self), resolved or not
ExtractRef == Did("new") /\ ~moved /\ BorrowOperands(tup) /\ \E range \in ExtractOperands(tup) :
    LET refs == extract_ref(tup, range[1], range[2])
    IN  Borrow("extract_ref", range[1], tup,
               [old |-> tup, end |-> range[2], refs |-> refs,
                output |-> {Deref(tup, r) : r \in refs}])

\* *TypedExtract::<start, end, _>::extract(&mut self).k = value, resolved or
\* not
ExtractMut == Did("new") /\ ~moved /\ BorrowOperands(tup) /\ \E range \in ExtractOperands(tup) :
    LET refs == extract_mut(tup, range[1], range[2])
    IN  IF refs = {} \/ refs = {<<>>}
        THEN Borrow("extract_mut", range[1], tup,
                    [old |-> tup, end |-> range[2], refs |-> refs, k |-> 0,
                     value |-> Default(TypeNames[1]), written |-> FALSE])
        ELSE \E k \in Written(Ref(refs)) :
             \E value \in ValueOperands(tup, Field(Ref(refs), k)) :
                 Borrow("extract_mut", range[1], Write(tup, Field(Ref(refs), k), value),
                        [old |-> tup, end |-> range[2], refs |-> refs, k |-> k,
                         value |-> value, written |-> TRUE])

\* TypedSplit::<index, _, _>::split(&self), resolved or not
SplitRef == Did("new") /\ ~moved /\ BorrowOperands(tup) /\ \E index \in SplitOperands(tup) :
    LET refs == split_ref(tup, index)
    IN  Borrow("split_ref", index, tup,
               [old |-> tup, refs |-> refs,
                output |-> {[left |-> Deref(tup, r.left), right |-> Deref(tup, r.right)] :
                               r \in refs}])

\* *TypedSplit::<index, _, _>::split(&mut self).side.k = value, resolved or
\* not
SplitMut == Did("new") /\ ~moved /\ BorrowOperands(tup) /\ \E index \in SplitOperands(tup) :
    LET refs == split_mut(tup, index)
    IN  IF refs = {}
        THEN Borrow("split_mut", index, tup,
                    [old |-> tup, refs |-> refs, side |-> "left", k |-> 0,
                     value |-> Default(TypeNames[1]), written |-> FALSE])
        ELSE \E side \in {"left", "right"} :
             LET segment == IF side = "left" THEN Ref(refs).left ELSE Ref(refs).right
             IN  /\ segment # <<>>
                 /\ \E k \in Written(segment) :
                    \E value \in ValueOperands(tup, Field(segment, k)) :
                        Borrow("split_mut", index, Write(tup, Field(segment, k), value),
                               [old |-> tup, refs |-> refs, side |-> side, k |-> k,
                                value |-> value, written |-> TRUE])

NextAccess ==
    \/ NthType
    \/ Last
    \/ Get
    \/ GetMut
    \/ Replace
    \/ Take
    \/ Swap
    \/ GetOf
    \/ ReplaceOf
    \/ Apply
    \/ Map
    \/ MapMut
    \/ ExtractRef
    \/ ExtractMut
    \/ SplitRef
    \/ SplitMut

SpecAccess == Init /\ [][NextAccess]_vars

---------------------------------------------------------------------------
(* The bounds machine: a tuple type is given, then the bound composition   *)
(* traits are resolved for it.                                             *)

\* TT: NthIndexedUntil<Idx> and TT: TypedUntil<Idx>, met or not
IndexedUntil == Did("new") /\ \E index \in IndexOperands(tup) :
    Borrow("indexed_until", index, tup,
           [positions |-> UntilPositions(index),
            nth_indexed_until |-> NthIndexedUntil(tup, index),
            typed_until |-> TypedUntil(tup, index)])

\* the tuples compared with a tuple through index: every small tuple of
\* default values, with the tuples whose values number their positions;
\* with a long tuple, tuples as long as the index, longer, and of other types
OtherOperands(self, index) ==
    IF self = Canon(Len(self), 0) /\ Len(self) > MaxLen
    THEN {Canon(n, 100) : n \in {index, index + 1, Len(self), MAX_SIZE + 1}}
             \cup {Tail(Canon(index + 2, 100))}
    ELSE IF /\ index <= Len(self)
            /\ \A i \in 1..Len(self) : self[i].val = (i - 1) % (MaxVal + 1)
         THEN UNION {[1..n -> {Default(T) : T \in Types}] : n \in 0..MaxLen}
         ELSE {}

\* TT: NthIndexedAs<Idx, Other>, met or not
IndexedAs == Did("new") /\ \E index \in IndexOperands(tup) :
    \E other \in OtherOperands(tup, index) :
        Borrow("indexed_as", index, tup,
               [other |-> other, output |-> NthIndexedAs(tup, index, other)])

NextBounds ==
    \/ IndexedUntil
    \/ IndexedAs

SpecBounds == Init /\ [][NextBounds]_vars

---------------------------------------------------------------------------
(* Properties of the decomposition methods (tuple machine, Spec).          *)


\* the elements of s at the 0-based positions a .. b - 1
Slice(s, a, b) == SubSeq(s, a + 1, b)

\* C1: chaining the two parts returned by split_right(p) (left exclusive,
\* right inclusive) gives back the tuple, and so does chaining the two parts
\* returned by split_left(p) (left inclusive, right exclusive); every element
\* is at its original position.
SplitChainRoundTrip ==
    (Did("split_right") \/ Did("split_left")) =>
        /\ ChainRightOutput(out.left, out.right) = {tup}
        /\ out.left \o out.right = tup

SplitChainRoundTripWitness ==
    /\ Did("split_right")
    /\ tup = Canon(5, 0)
    /\ idx = 2
    /\ Len(out.left) = 2
    /\ Len(out.right) = 3
    /\ chain_right(out.left, out.right) = tup

\* C2: the inclusive parts are the exclusive parts with the pivot element
\* added on the pivot side: left_inclusive is left_exclusive followed by the
\* element, right_inclusive is the element followed by right_exclusive.
InclusiveIsExclusivePlusPivot ==
    LET s == split_exclusive(tup, idx)
    IN  /\ (Did("split_left") \/ Did("split_inclusive")) =>
               out.left = s.left \o <<s.element>>
        /\ (Did("split_right") \/ Did("split_inclusive")) =>
               out.right = <<s.element>> \o s.right

InclusiveIsExclusivePlusPivotWitness ==
    /\ Did("split_left")
    /\ Len(tup) = 3
    /\ idx = 1
    /\ tup[1] # tup[2]
    /\ out.left = <<tup[1], tup[2]>>
    /\ out.right = <<tup[3]>>

\* C3: pop(p) returns the element at p and, as the remainder, the left
\* exclusive part followed by the right exclusive part: L - 1 elements, all
\* elements other than the one at p in their original order.
PopConsistency ==
    Did("pop") =>
        LET s == split_exclusive(tup, idx)
        IN  /\ out.element = s.element
            /\ out.element = tup[idx + 1]
            /\ out.rest = s.left \o s.right
            /\ Len(out.rest) = Len(tup) - 1
            /\ \A k \in 1..(Len(tup) - 1) :
                   out.rest[k] = IF k <= idx THEN tup[k] ELSE tup[k + 1]

PopConsistencyWitness ==
    /\ Did("pop")
    /\ Len(tup) = 3
    /\ idx = 1
    /\ tup[1] # tup[3]
    /\ out.rest = <<tup[1], tup[3]>>
    /\ out.element = tup[2]

\* C4: split_exclusive(p) returns the elements before p in order, the
\* element at p, and the elements after p in order; nothing is dropped,
\* duplicated or reordered.
SplitExclusiveParts ==
    Did("split_exclusive") =>
        /\ out.left = Slice(tup, 0, idx)
        /\ out.element = tup[idx + 1]
        /\ out.right = Slice(tup, idx + 1, Len(tup))
        /\ Len(out.left) + 1 + Len(out.right) = Len(tup)

SplitExclusivePartsWitness ==
    /\ Did("split_exclusive")
    /\ tup = Canon(5, 0)
    /\ idx = 2
    /\ out.left = Canon(2, 0)
    /\ out.element.val = 2
    /\ Len(out.right) = 2
    /\ out.right[1].val = 3
    /\ out.right[2].val = 4

\* C5: split_inclusive(p) returns the elements at 0..=p and the elements at
\* p..L-1; the pivot is the last element of the left half and the first of
\* the right half, every other element is in exactly one half.
SplitInclusiveParts ==
    Did("split_inclusive") =>
        /\ out.left = Slice(tup, 0, idx + 1)
        /\ out.right = Slice(tup, idx, Len(tup))
        /\ out.left[Len(out.left)] = tup[idx + 1]
        /\ out.right[1] = tup[idx + 1]
        /\ Len(out.left) + Len(out.right) = Len(tup) + 1

SplitInclusivePartsWitness ==
    /\ Did("split_inclusive")
    /\ tup = Canon(5, 0)
    /\ idx = 2
    /\ Len(out.left) = 3
    /\ Len(out.right) = 3
    /\ out.left[3] = out.right[1]

\* C6: chain_right is defined for exactly the pairs of lengths (a, b) with
\* a + b <= MAX_SIZE, either side possibly empty; where defined its result
\* has length a + b: the elements of the left operand in order, then the
\* elements of the right operand in order.
ChainDefinedWithinMax ==
    Did("chain_right") =>
        LET a == Len(tup)
            b == Len(out.right)
        IN  /\ (out.output # {}) <=> (a + b <= MAX_SIZE)
            /\ Cardinality(out.output) <= 1
            /\ \A o \in out.output :
                   /\ Len(o) = a + b
                   /\ \A k \in 1..(a + b) :
                          o[k] = IF k <= a THEN tup[k] ELSE out.right[k - a]

ChainDefinedWithinMaxWitness ==
    /\ Did("chain_right")
    /\ Len(tup) = MAX_SIZE - 1
    /\ Len(out.right) = 1
    /\ out.output = {tup \o out.right}

\* C7: empty parts are valid results: every tuple of a supported length can
\* be split at position 0 and at its last position; splitting at 0 gives an
\* empty left exclusive part, splitting at the last position gives an empty
\* right exclusive part, and for a one-element tuple both are empty and pop
\* leaves the empty tuple.
EmptyPartsAtTheEnds ==
    /\ (Did("new") /\ Len(tup) \in 1..MAX_SIZE) =>
           /\ HasTypedBounds(tup, 0)
           /\ HasTypedBounds(tup, Len(tup) - 1)
    /\ ((Did("split_exclusive") \/ Did("split_right")) /\ idx = 0) =>
           out.left = <<>>
    /\ ((Did("split_exclusive") \/ Did("split_left")) /\ idx = Len(tup) - 1) =>
           out.right = <<>>
    /\ (Did("pop") /\ Len(tup) = 1) => out.rest = <<>>

EmptyPartsAtTheEndsWitness ==
    /\ Did("split_exclusive")
    /\ Len(tup) = 1
    /\ idx = 0
    /\ out.left = <<>>
    /\ out.right = <<>>
    /\ out.element = tup[1]

\* the pairs of sizes chained by the decomposition of a tuple of n elements
\* at the position p
DecompositionPairs(n, p) ==
    {[left_size |-> p,     right_size |-> 1],
     [left_size |-> 1,     right_size |-> n - 1 - p],
     [left_size |-> p,     right_size |-> n - 1 - p],
     [left_size |-> p,     right_size |-> n - p],
     [left_size |-> p + 1, right_size |-> n - 1 - p]}

\* C26: the generated matrix has no gap: for every length L in 1..MAX_SIZE
\* and every position p in 0..L - 1 the chain impls for the pairs of sizes
\* (p, 1), (1, L-1-p), (p, L-1-p), (p, L-p) and (p+1, L-1-p) are
\* generated, so the five parts (left and right, exclusive and inclusive,
\* and the rest after pop) are defined for every valid (L, p).
ChainMatrixComplete ==
    Len(tup) \in 1..MAX_SIZE =>
        /\ Did("new") =>
               \A p \in 0..(Len(tup) - 1) :
                   /\ DecompositionPairs(Len(tup), p) \subseteq generate_chain_right_impls
                   /\ HasTypedBounds(tup, p)
        /\ Did("pop") =>
               /\ DecompositionPairs(Len(tup), idx) \subseteq generate_chain_right_impls
               /\ Len(out.rest) = Len(tup) - 1
        /\ Did("split_inclusive") =>
               /\ DecompositionPairs(Len(tup), idx) \subseteq generate_chain_right_impls
               /\ Len(out.left) = idx + 1
               /\ Len(out.right) = Len(tup) - idx

ChainMatrixCompleteWitness ==
    /\ Did("pop")
    /\ Len(tup) = MAX_SIZE
    /\ idx = MAX_SIZE - 1
    /\ Len(out.rest) = MAX_SIZE - 1

\* the two segments of s around the centre bound index i
Segments(s, i) == [left |-> Slice(s, 0, i), right |-> Slice(s, i, Len(s))]

---------------------------------------------------------------------------
(* Properties of the position arithmetic (position machine, SpecIndex).    *)

\* C8: SaturatingSub(a, b) is defined for every pair of positions; its result
\* is a - b when a >= b and 0 when a < b, and is itself a position.
SaturatingSubTotal ==
    Did("saturating_sub") =>
        /\ out.output = {IF out.left >= out.right THEN out.left - out.right ELSE 0}
        /\ out.output \subseteq generate_index_markers

SaturatingSubTotalWitness ==
    /\ Did("saturating_sub")
    /\ out.left = 2
    /\ out.right = 10
    /\ out.output = {0}

\* C9: Sub(a, b) is defined exactly when a >= b, with result a - b; no
\* implementation exists when b > a; where Sub is defined it agrees with
\* SaturatingSub.
SubDefinedIffNoUnderflow ==
    Did("sub") =>
        /\ (out.left >= out.right) => out.output = {out.left - out.right}
        /\ (out.right > out.left) => out.output = {}
        /\ (out.output # {}) =>
               out.output = TupleIndexSaturatingSub(out.left, out.right)

SubDefinedIffNoUnderflowWitness ==
    /\ Did("sub")
    /\ out.left = 10
    /\ out.right = 4
    /\ out.output = {6}

\* C10: Add(a, b) is defined exactly when a + b < MAX_SIZE, with result the
\* position a + b; then Sub(Add(a, b), b) = a; no Add has a result outside
\* the positions.
AddDefinedWithinMax ==
    Did("add") =>
        /\ (out.left + out.right < MAX_SIZE) => out.output = {out.left + out.right}
        /\ (out.left + out.right >= MAX_SIZE) => out.output = {}
        /\ \A c \in out.output :
               /\ c \in generate_index_markers
               /\ TupleIndexSub(c, out.right) = {out.left}

AddDefinedWithinMaxWitness ==
    /\ Did("add")
    /\ out.left = 5
    /\ out.right = 3
    /\ out.output = {8}
    /\ TupleIndexSub(8, 2) = {6}

\* C11: for every position p the identities p + 0 = p, p - p = 0 and
\* p - 0 = p are defined and hold, as the supertraits of TupleIndex require
\* of every marker.
IndexIdentities ==
    /\ (Did("add") /\ out.right = 0) => out.output = {out.left}
    /\ (Did("sub") /\ out.right = out.left) => out.output = {0}
    /\ (Did("sub") /\ out.right = 0) => out.output = {out.left}
    /\ Did("new") => TupleIndexBounds(out.left)

IndexIdentitiesWitness ==
    /\ Did("sub")
    /\ out.left = MAX_SIZE - 1
    /\ out.right = 0
    /\ out.output = {MAX_SIZE - 1}

---------------------------------------------------------------------------
(* Properties of position lookup and element access (access machine,       *)
(* SpecAccess).                                                            *)

\* the 0-based positions of s other than a and b hold the same in s and t
SameElsewhere(s, t, a, b) ==
    /\ Len(s) = Len(t)
    /\ \A i \in 0..(Len(s) - 1) : (i # a /\ i # b) => Field(s, i) = Field(t, i)

\* C12: for a tuple of length L in 1..MAX_SIZE the lookup of the element
\* type at position p is defined exactly for 0 <= p < L and gives the type
\* of the element at p; for p >= L there is no lookup, no get and no
\* get_mut.
NthTypeDefinedInRange ==
    LET InRange(self) == idx < Len(self) /\ Len(self) <= MAX_SIZE
    IN  /\ Did("nth_type") =>
               IF InRange(tup) THEN out.output = {Field(tup, idx).ty}
                               ELSE out.output = {}
        /\ Did("get") =>
               IF InRange(tup) THEN out.refs = {idx} ELSE out.refs = {}
        /\ Did("get_mut") =>
               IF InRange(out.old) THEN out.refs = {idx}
                                   ELSE out.refs = {} /\ tup = out.old

NthTypeDefinedInRangeWitness ==
    /\ Did("nth_type")
    /\ Len(tup) = 3
    /\ idx = 2
    /\ Field(tup, 2).ty # Field(tup, 0).ty
    /\ out.output = {Field(tup, 2).ty}

\* C13: for a tuple of length L in 1..MAX_SIZE the last position is L - 1,
\* it is a marker with a lookup and an access for that tuple, and the
\* access through it reads the final element.
LastIsFinalPosition ==
    (Did("last") /\ Len(tup) \in 1..MAX_SIZE) =>
        /\ out.output = {Len(tup) - 1}
        /\ \A last \in out.output :
               /\ last \in generate_index_markers
               /\ NthIndex(tup, last) = {tup[Len(tup)].ty}
               /\ {Field(tup, r) : r \in get(tup, last)} = {tup[Len(tup)]}

LastIsFinalPositionWitness ==
    /\ Did("last")
    /\ Len(tup) = MAX_SIZE
    /\ out.output = {MAX_SIZE - 1}

\* C14: replace(p, value) returns the value that was at p, leaves value at
\* p and every other position as it was; a following get(p) reads value.
ReplaceFrame ==
    Did("replace") =>
        /\ out.result = Field(out.old, idx)
        /\ Field(tup, idx) = out.value
        /\ SameElsewhere(out.old, tup, idx, idx)
        /\ {Field(tup, r) : r \in get(tup, idx)} = {out.value}

ReplaceFrameWitness ==
    /\ Did("replace")
    /\ Len(tup) = 3
    /\ idx = 1
    /\ out.result # out.value
    /\ Field(tup, 1) = out.value

\* C15: take(p) returns the value that was at p, leaves the default value
\* of the element type at p and every other position as it was.
TakeFrame ==
    Did("take") =>
        /\ out.result = Field(out.old, idx)
        /\ Field(tup, idx) = Default(Field(out.old, idx).ty)
        /\ SameElsewhere(out.old, tup, idx, idx)

TakeFrameWitness ==
    /\ Did("take")
    /\ Len(tup) = 3
    /\ idx = 2
    /\ out.result.val = 1
    /\ Field(tup, 2).val = 0

\* C16: swap(a, b) on two positions of the same element type leaves the
\* former value of a at b and the former value of b at a and every other
\* position as it was; with a = b the tuple is left as it was.
SwapFrame ==
    Did("swap") =>
        /\ Field(out.old, idx).ty = Field(out.old, out.other).ty
        /\ Field(tup, out.other) = Field(out.old, idx)
        /\ Field(tup, idx) = Field(out.old, out.other)
        /\ SameElsewhere(out.old, tup, idx, out.other)
        /\ idx = out.other => tup = out.old

SwapFrameWitness ==
    /\ Did("swap")
    /\ Len(tup) = 3
    /\ idx = 0
    /\ out.other = 2
    /\ Field(out.old, 0) # Field(out.old, 2)
    /\ Field(tup, 0) = Field(out.old, 2)

\* C17: swap is an involution: after swap(a, b), a second swap(a, b), or
\* swap(b, a), gives back the tuple as it was before the first; swap(a, a)
\* changes nothing.
SwapInvolution ==
    Did("swap") =>
        /\ SwapBounds(tup, idx, out.other)
        /\ SwapBounds(tup, out.other, idx)
        /\ swap(tup, idx, out.other).self = out.old
        /\ swap(tup, out.other, idx).self = out.old
        /\ idx = out.other => swap(tup, idx, idx).self = tup

SwapInvolutionWitness ==
    /\ Did("swap")
    /\ idx # out.other
    /\ tup # out.old
    /\ swap(tup, out.other, idx).self = out.old

\* C18: when swap exchanges (the integers of the two markers differ) its
\* two mutable references are to two different fields; with equal integers
\* it makes no reference and changes nothing; no other marker has the
\* integer of a given marker.
SwapRefsDisjoint ==
    Did("swap") =>
        /\ TupleIndexIdx(idx) # TupleIndexIdx(out.other) =>
               /\ Len(out.refs) = 2
               /\ out.refs[1] # out.refs[2]
        /\ TupleIndexIdx(idx) = TupleIndexIdx(out.other) =>
               /\ out.refs = <<>>
               /\ tup = out.old
        /\ \A n \in generate_index_markers :
               n # idx => TupleIndexIdx(n) # TupleIndexIdx(idx)

SwapRefsDisjointWitness ==
    /\ Did("swap")
    /\ Len(tup) = MAX_SIZE
    /\ idx = MAX_SIZE - 1
    /\ Len(out.refs) = 2
    /\ out.refs[1] = MAX_SIZE - 1
    /\ out.refs[2] < MAX_SIZE - 1

\* C19: get and replace with the position left to inference resolve for an
\* element type T exactly when T is the type of exactly one position, and
\* then read or replace that position; with two or more positions of type
\* T, or none, they do not resolve.
InferredAccessUnique ==
    (Did("get_of") \/ Did("replace_of")) =>
        LET self == IF Did("get_of") THEN tup ELSE out.old
            occurs == {i \in 0..(Len(self) - 1) : Field(self, i).ty = out.ty}
        IN  IF Cardinality(occurs) = 1 /\ Len(self) <= MAX_SIZE
            THEN /\ out.refs = occurs
                 /\ Did("get_of") =>
                        out.output = {Field(self, i) : i \in occurs}
                 /\ Did("replace_of") =>
                        /\ out.result = {Field(self, i) : i \in occurs}
                        /\ \A i \in occurs :
                               /\ Field(tup, i) = out.value
                               /\ SameElsewhere(self, tup, i, i)
            ELSE /\ out.refs = {}
                 /\ tup = self

InferredAccessUniqueWitness ==
    /\ Did("replace_of")
    /\ Len(tup) = 3
    /\ Field(out.old, 0).ty = Field(out.old, 1).ty
    /\ out.refs = {2}
    /\ out.result # {out.value}
    /\ Field(tup, 2) = out.value

\* the element types of a tuple, in order
TypesOf(s) == [i \in 1..Len(s) |-> s[i].ty]

UntilCoversPrefix ==
    Did("indexed_until") =>
        /\ out.positions = 0..idx
        /\ Len(tup) \in 1..MAX_SIZE =>
               /\ out.nth_indexed_until <=> idx < Len(tup)
               /\ out.typed_until <=> idx < Len(tup)

UntilCoversPrefixWitness ==
    /\ Did("indexed_until")
    /\ Len(tup) = MAX_SIZE
    /\ idx = MAX_SIZE - 1
    /\ out.positions = 0..(MAX_SIZE - 1)
    /\ out.nth_indexed_until
    /\ out.typed_until

\* C24: a tuple is type compatible with another through p (NthIndexedAs)
\* exactly when both are longer than p and have the same element type at
\* every position 0..p, whatever their lengths and types past p; a tuple
\* with a valid position p is compatible with itself through p.
CompatibleThroughPrefix ==
    Did("indexed_as") =>
        /\ (Len(tup) <= MAX_SIZE /\ Len(out.other) <= MAX_SIZE) =>
               (out.output <=>
                   /\ idx < Len(tup)
                   /\ idx < Len(out.other)
                   /\ \A i \in 0..idx : Field(tup, i).ty = Field(out.other, i).ty)
        /\ (idx < Len(tup) /\ Len(tup) <= MAX_SIZE) => NthIndexedAs(tup, idx, tup)

CompatibleThroughPrefixWitness ==
    /\ Did("indexed_as")
    /\ idx = 1
    /\ Len(tup) = 3
    /\ Len(out.other) = 2
    /\ Field(tup, 0).ty # Field(tup, 1).ty
    /\ out.output

---------------------------------------------------------------------------
(* Properties of TypedExtract (tuple machine, Spec).                       *)

MatchingRanges(s, pattern) ==
    {a \in 0..(Len(s) - Len(pattern)) :
        \A k \in 1..Len(pattern) : pattern[k] \in {Open, Field(s, a + k - 1).ty}}

\* C21: extraction by a pattern of k element types, some left open, with
\* no bound given, resolves exactly when exactly one range [start, start+k)
\* of the tuple matches the pattern, and then gives the elements of that
\* range; it does not resolve when two or more ranges match.
ExtractOfUnique ==
    (Did("extract_of") /\ Len(tup) \in 1..EXTRACT_SIZE) =>
        LET ranges == MatchingRanges(tup, out.pattern)
        IN  IF Cardinality(ranges) = 1
            THEN out.output = {Slice(tup, a, a + Len(out.pattern)) : a \in ranges}
            ELSE out.output = {}

\* C21 for the patterns of at least one element type
ExtractOfUniqueNonEmpty ==
    (Did("extract_of") /\ Len(out.pattern) >= 1) => ExtractOfUnique

\* C22: for a tuple of length L, extract with explicit bounds is defined
\* for every range [start, end) with 0 <= start <= end <= L, the empty
\* ranges [k, k) for k in 0..L among them, and an empty range gives the
\* empty tuple.
ExtractCoversEmpty ==
    (Did("extract") /\ idx <= out.end /\ out.end <= Len(tup)
                    /\ Len(tup) \in 1..EXTRACT_SIZE) =>
        /\ out.output = {Slice(tup, idx, out.end)}
        /\ idx = out.end => out.output = {<<>>}

\* C22 for the empty ranges that start before the end of the tuple
ExtractCoversEmptyInside ==
    (Did("extract") /\ idx < Len(tup)) => ExtractCoversEmpty

---------------------------------------------------------------------------
(* Properties of the reference forms of extract and split (access machine, *)
(* SpecAccess).                                                            *)

\* C28: extract and split through a reference do not consume or change the
\* tuple. Through a shared reference they give references to exactly the
\* fields of the selected positions, in order, and every value of the tuple
\* stays; through an exclusive reference, a write through the k-th returned
\* reference changes the field of the corresponding position (start + k for
\* extract and for the right segment of split, k for the left segment) and no
\* other field.
RefFormsFrame ==
    /\ (Did("extract_ref") \/ Did("extract_mut") \/ Did("split_ref") \/ Did("split_mut")) =>
           /\ ~moved
           /\ Len(tup) = Len(out.old)
    /\ (Did("extract_ref") /\ out.refs # {}) =>
           /\ tup = out.old
           /\ out.refs = {[k \in 1..(out.end - idx) |-> idx + k - 1]}
           /\ out.output = {Slice(out.old, idx, out.end)}
    /\ (Did("split_ref") /\ out.refs # {}) =>
           /\ tup = out.old
           /\ out.refs = {[left  |-> [k \in 1..idx |-> k - 1],
                          right |-> [k \in 1..(Len(tup) - idx) |-> idx + k - 1]]}
           /\ out.output = {Segments(out.old, idx)}
    /\ (Did("extract_mut") /\ out.written) =>
           /\ Field(tup, idx + out.k) = out.value
           /\ SameElsewhere(out.old, tup, idx + out.k, idx + out.k)
    /\ (Did("extract_mut") /\ ~out.written) => tup = out.old
    /\ (Did("split_mut") /\ out.written) =>
           LET p == IF out.side = "left" THEN out.k ELSE idx + out.k
           IN  /\ Field(tup, p) = out.value
               /\ SameElsewhere(out.old, tup, p, p)
    /\ (Did("split_mut") /\ ~out.written) => tup = out.old

RefFormsFrameWitness ==
    /\ Did("extract_mut")
    /\ out.written
    /\ Len(tup) = 3
    /\ idx = 1
    /\ out.end = 3
    /\ out.k = 1
    /\ Field(tup, 2) = out.value
    /\ Field(tup, 2) # Field(out.old, 2)
    /\ Field(tup, 0) = Field(out.old, 0)
    /\ Field(tup, 1) = Field(out.old, 1)

---------------------------------------------------------------------------
(* Properties of nested decomposition and of the part lengths (tuple       *)
(* machine, Spec).                                                         *)

\* C29: decomposition is consistent under nesting. The left inclusive part
\* of a tuple at position p, decomposed again at p, has the left exclusive
\* part of the tuple and the one-element tuple of the pivot as its right
\* inclusive part; the right inclusive part of the tuple, decomposed at
\* position 0, has the right exclusive part of the tuple and the one-element
\* tuple of the pivot as its left inclusive part.
NestedDecomposition ==
    /\ Did("split_left") =>
           /\ HasTypedBounds(out.left, idx)
           /\ split_right(out.left, idx) =
                  [left  |-> split_exclusive(tup, idx).left,
                   right |-> <<Field(tup, idx)>>]
           /\ split_exclusive(out.left, idx).left = Slice(tup, 0, idx)
    /\ Did("split_right") =>
           /\ HasTypedBounds(out.right, 0)
           /\ split_left(out.right, 0) =
                  [left  |-> <<Field(tup, idx)>>,
                   right |-> split_exclusive(tup, idx).right]
           /\ split_exclusive(out.right, 0).right = Slice(tup, idx + 1, Len(tup))

NestedDecompositionWitness ==
    /\ Did("split_right")
    /\ Len(tup) = 3
    /\ idx = 1
    /\ out.right = <<tup[2], tup[3]>>
    /\ split_left(out.right, 0) = [left |-> <<tup[2]>>, right |-> <<tup[3]>>]

\* C30: for a tuple of length L and a valid position p < L, the last
\* position minus p is defined (no underflow) and is L - 1 - p, the length of
\* the right exclusive part at p; the left exclusive part has p elements, the
\* left inclusive part p + 1 and the right inclusive part L - p.
PartLengths ==
    LET L == Len(tup)
        Decomposed == Did("split_exclusive") \/ Did("split_left")
                         \/ Did("split_right") \/ Did("split_inclusive")
    IN  /\ Decomposed =>
               /\ idx < L
               /\ LastIndex(tup) = {L - 1}
               /\ \A last \in LastIndex(tup) : TupleIndexSub(last, idx) = {L - 1 - idx}
        /\ Did("split_exclusive") =>
               /\ Len(out.left) = idx
               /\ TupleIndexSub(L - 1, idx) = {Len(out.right)}
        /\ Did("split_left") =>
               /\ Len(out.left) = idx + 1
               /\ TupleIndexSub(L - 1, idx) = {Len(out.right)}
        /\ Did("split_right") =>
               /\ Len(out.left) = idx
               /\ Len(out.right) = L - idx
        /\ Did("split_inclusive") =>
               /\ Len(out.left) = idx + 1
               /\ Len(out.right) = L - idx

PartLengthsWitness ==
    /\ Did("split_exclusive")
    /\ Len(tup) = MAX_SIZE
    /\ idx = 1
    /\ LastIndex(tup) = {MAX_SIZE - 1}
    /\ TupleIndexSub(MAX_SIZE - 1, idx) = {MAX_SIZE - 2}
    /\ Len(out.left) = 1
    /\ Len(out.right) = MAX_SIZE - 2

====
